---- MODULE Spec2Model ----
(***************************************************************************)
(* Model of codex-rs/utils/fuzzy-match/src/lib.rs: fuzzy_match, the        *)
(* case-insensitive greedy subsequence matcher.                            *)
(*                                                                         *)
(* Characters are named by strings:                                        *)
(*   "a" "A" "i"   ASCII letters                                           *)
(*   "I_DOT"       U+0130 LATIN CAPITAL LETTER I WITH DOT ABOVE            *)
(*   "DOT"         U+0307 COMBINING DOT ABOVE                              *)
(*   "SIGMA"       U+03A3 GREEK CAPITAL LETTER SIGMA                       *)
(*   "sigma"       U+03C3 GREEK SMALL LETTER SIGMA                         *)
(*   "fsigma"      U+03C2 GREEK SMALL LETTER FINAL SIGMA                   *)
(* Positions and indices are zero-based as in the source; the element at   *)
(* position p of a sequence s is s[p + 1].                                 *)
(***************************************************************************)
EXTENDS Integers, Sequences, FiniteSets, TLC

VARIABLES haystack, needle, pc,
          lowered_chars, lowered_to_orig_char_idx, lowered_needle,
          ni, cur, result_orig_indices, last_lower_pos, matched_lower_pos,
          first_lower_pos, window, score, result,
          haystack2, result2

vars == <<haystack, needle, pc,
          lowered_chars, lowered_to_orig_char_idx, lowered_needle,
          ni, cur, result_orig_indices, last_lower_pos, matched_lower_pos,
          first_lower_pos, window, score, result,
          haystack2, result2>>

(* ------------------------------ bounds --------------------------------- *)

MaxHaystack == 3
MaxNeedle == 2
MaxPairHaystack == 3
MaxPairNeedle == 2

Chars == {"a", "A", "i", "I_DOT", "DOT", "SIGMA", "sigma"}
PairChars == {"a", "I_DOT", "DOT"}
AsciiChars == {"a", "A", "i"}

StringsUpTo(alphabet, n) == UNION {[1..k -> alphabet] : k \in 0..n}

(* --------------------------- program constants ------------------------- *)

I32_MAX == 2147483647
PREFIX_BONUS == 100
None == -1

(* ------------------------- character lowering -------------------------- *)

\* char::to_lowercase: the lowercase expansion of one character (1..k chars).
CharToLowercaseKeepsUpperA(ch) ==
  CASE ch = "I_DOT" -> <<"i", "DOT">>
    [] ch = "SIGMA" -> <<"sigma">>
    [] OTHER -> <<ch>>

CharToLowercase(ch) ==
  CASE ch = "A" -> <<"a">>
    [] ch = "I_DOT" -> <<"i", "DOT">>
    [] ch = "SIGMA" -> <<"sigma">>
    [] OTHER -> <<ch>>

\* Unicode properties used by str::to_lowercase for the Final_Sigma rule.
Cased(ch) == ch \in {"a", "A", "i", "I_DOT", "SIGMA", "sigma", "fsigma"}
CaseIgnorable(ch) == ch = "DOT"

RECURSIVE case_ignorable_then_cased(_)
case_ignorable_then_cased(s) ==
  IF s = <<>> THEN FALSE
  ELSE IF CaseIgnorable(Head(s)) THEN case_ignorable_then_cased(Tail(s))
  ELSE Cased(Head(s))

Reverse(s) == [k \in 1..Len(s) |-> s[Len(s) + 1 - k]]

\* The lowering of the capital sigma at (one-based) place k of s.
map_uppercase_sigma(s, k) ==
  LET is_word_final ==
        /\ case_ignorable_then_cased(Reverse(SubSeq(s, 1, k - 1)))
        /\ ~case_ignorable_then_cased(SubSeq(s, k + 1, Len(s)))
  IN IF is_word_final THEN <<"fsigma">> ELSE <<"sigma">>

RECURSIVE StrLowerFrom(_, _)
StrLowerFrom(s, k) ==
  IF k > Len(s) THEN <<>>
  ELSE (IF s[k] = "SIGMA" THEN map_uppercase_sigma(s, k)
        ELSE CharToLowercase(s[k])) \o StrLowerFrom(s, k + 1)

\* str::to_lowercase, as applied to the needle.
StrToLowercase(s) == StrLowerFrom(s, 1)

\* The haystack's lowering map: lowered characters and, in parallel, the
\* original index each came from.
RECURSIVE LowerHaystackFrom(_, _)
LowerHaystackFrom(h, orig_idx) ==
  IF orig_idx >= Len(h) THEN [chars |-> <<>>, idx |-> <<>>]
  ELSE LET lc == CharToLowercase(h[orig_idx + 1])
           rest == LowerHaystackFrom(h, orig_idx + 1)
       IN [chars |-> lc \o rest.chars,
           idx |-> [k \in 1..Len(lc) |-> orig_idx] \o rest.idx]

LowerHaystack(h) == LowerHaystackFrom(h, 0)

(* ------------------------------ the scan ------------------------------- *)

\* State of the scan loops: ni counts the lowered needle characters already
\* matched, cur is the cursor, roi is result_orig_indices, last is
\* last_lower_pos, poss the matched lowered positions, failed the early
\* return of `found_at?`.
ScanStart ==
  [ni |-> 0, cur |-> 0, roi |-> <<>>, last |-> None, poss |-> <<>>,
   failed |-> FALSE]

\* One iteration of the inner while loop (or its exit with found_at = None).
ScanStepNoAdvance(lc, map, ln, s) ==
  IF s.cur < Len(lc)
  THEN IF lc[s.cur + 1] = ln[s.ni + 1]
       THEN [s EXCEPT !.ni = s.ni + 1,
                      !.roi = Append(s.roi, map[s.cur + 1]),
                      !.last = s.cur,
                      !.poss = Append(s.poss, s.cur)]
       ELSE [s EXCEPT !.cur = s.cur + 1]
  ELSE [s EXCEPT !.failed = TRUE]

ScanStepOffByOne(lc, map, ln, s) ==
  IF s.cur < Len(lc) - 1
  THEN IF lc[s.cur + 1] = ln[s.ni + 1]
       THEN [s EXCEPT !.ni = s.ni + 1,
                      !.cur = s.cur + 1,
                      !.roi = Append(s.roi, map[s.cur + 1]),
                      !.last = s.cur,
                      !.poss = Append(s.poss, s.cur)]
       ELSE [s EXCEPT !.cur = s.cur + 1]
  ELSE [s EXCEPT !.failed = TRUE]

ScanStepPushOnMiss(lc, map, ln, s) ==
  IF s.cur < Len(lc)
  THEN IF lc[s.cur + 1] = ln[s.ni + 1]
       THEN [s EXCEPT !.ni = s.ni + 1,
                      !.cur = s.cur + 1,
                      !.roi = Append(s.roi, map[s.cur + 1]),
                      !.last = s.cur,
                      !.poss = Append(s.poss, s.cur)]
       ELSE [s EXCEPT !.cur = s.cur + 1,
                      !.roi = Append(s.roi, map[s.cur + 1])]
  ELSE [s EXCEPT !.failed = TRUE]

ScanStep(lc, map, ln, s) ==
  IF s.cur < Len(lc)
  THEN IF lc[s.cur + 1] = ln[s.ni + 1]
       THEN [s EXCEPT !.ni = s.ni + 1,
                      !.cur = s.cur + 1,
                      !.roi = Append(s.roi, map[s.cur + 1]),
                      !.last = s.cur,
                      !.poss = Append(s.poss, s.cur)]
       ELSE [s EXCEPT !.cur = s.cur + 1]
  ELSE [s EXCEPT !.failed = TRUE]

ScanDone(ln, s) == s.failed \/ s.ni = Len(ln)

RECURSIVE ScanRun(_, _, _, _)
ScanRun(lc, map, ln, s) ==
  IF ScanDone(ln, s) THEN s ELSE ScanRun(lc, map, ln, ScanStep(lc, map, ln, s))

(* ------------------------------ scoring -------------------------------- *)

Max(x, y) == IF x >= y THEN x ELSE y
Min(x, y) == IF x <= y THEN x ELSE y

\* The earliest lowered position of the first matched original character.
FirstLowerPosLast(map, roi) ==
  IF roi = <<>> THEN 0
  ELSE LET target_orig == roi[1]
           hits == {p \in 0..(Len(map) - 1) : map[p + 1] = target_orig}
       IN IF hits = {} THEN 0
          ELSE CHOOSE p \in hits : \A q \in hits : p >= q

FirstLowerPos(map, roi) ==
  IF roi = <<>> THEN 0
  ELSE LET target_orig == roi[1]
           hits == {p \in 0..(Len(map) - 1) : map[p + 1] = target_orig}
       IN IF hits = {} THEN 0
          ELSE CHOOSE p \in hits : \A q \in hits : p <= q

WindowNoPlusOne(last, first, nlen) ==
  (last - first) - nlen

Window(last, first, nlen) ==
  (last - first + 1) - nlen

ScoreOfMin(w, first) ==
  LET s == Min(w, 0)
  IN IF first = 0 THEN s - PREFIX_BONUS ELSE s

ScoreOf(w, first) ==
  LET s == Max(w, 0)
  IN IF first = 0 THEN s - PREFIX_BONUS ELSE s

(* ----------------------- index post-processing ------------------------- *)

RECURSIVE Insert(_, _)
Insert(x, s) ==
  IF s = <<>> THEN <<x>>
  ELSE IF x <= Head(s) THEN <<x>> \o s
  ELSE <<Head(s)>> \o Insert(x, Tail(s))

RECURSIVE Sort(_)
Sort(s) == IF s = <<>> THEN <<>> ELSE Insert(Head(s), Sort(Tail(s)))

\* Vec::dedup: drop every element equal to its predecessor.
RECURSIVE Dedup(_)
Dedup(s) ==
  IF Len(s) <= 1 THEN s
  ELSE IF s[1] = s[2] THEN Dedup(Tail(s))
  ELSE <<s[1]>> \o Dedup(Tail(s))

SortOnly(roi) == Sort(roi)

SortDedup(roi) == Dedup(Sort(roi))

(* ------------------------------ results -------------------------------- *)

NoMatch == [some |-> FALSE, indices |-> <<>>, score |-> 0]
SomeMatch(indices, sc) == [some |-> TRUE, indices |-> indices, score |-> sc]

EmptyNeedleResultZero == SomeMatch(<<>>, 0)

EmptyNeedleResult == SomeMatch(<<>>, I32_MAX)

\* fuzzy_match as a function of its two arguments, with the intermediate
\* values of the call kept beside the returned pair.
FuzzyMatchTrace(h, n) ==
  IF n = <<>>
  THEN [result |-> EmptyNeedleResult, poss |-> <<>>, first |-> 0, window |-> 0]
  ELSE LET low == LowerHaystack(h)
           ln == StrToLowercase(n)
           s == ScanRun(low.chars, low.idx, ln, ScanStart)
       IN IF s.failed
          THEN [result |-> NoMatch, poss |-> s.poss, first |-> 0, window |-> 0]
          ELSE LET first == FirstLowerPos(low.idx, s.roi)
                   last == IF s.last = None THEN first ELSE s.last
                   w == Window(last, first, Len(ln))
               IN [result |-> SomeMatch(SortDedup(s.roi), ScoreOf(w, first)),
                   poss |-> s.poss, first |-> first, window |-> w]

FuzzyMatch(h, n) == FuzzyMatchTrace(h, n).result

(* --------------------- one call, statement by statement ---------------- *)

Init ==
  /\ haystack \in StringsUpTo(Chars, MaxHaystack)
  /\ needle \in StringsUpTo(Chars, MaxNeedle)
  /\ pc = "start"
  /\ lowered_chars = <<>>
  /\ lowered_to_orig_char_idx = <<>>
  /\ lowered_needle = <<>>
  /\ ni = 0
  /\ cur = 0
  /\ result_orig_indices = <<>>
  /\ last_lower_pos = None
  /\ matched_lower_pos = <<>>
  /\ first_lower_pos = 0
  /\ window = 0
  /\ score = 0
  /\ result = NoMatch
  /\ haystack2 = <<>>
  /\ result2 = NoMatch

\* if needle.is_empty() { return Some((Vec::new(), i32::MAX)); }
EmptyNeedle ==
  /\ pc = "start"
  /\ needle = <<>>
  /\ result' = EmptyNeedleResult
  /\ pc' = "done"
  /\ UNCHANGED <<haystack, needle, lowered_chars, lowered_to_orig_char_idx,
                 lowered_needle, ni, cur, result_orig_indices, last_lower_pos,
                 matched_lower_pos, first_lower_pos, window, score,
                 haystack2, result2>>

\* Build the lowering map of the haystack and lower the needle.
Normalize ==
  /\ pc = "start"
  /\ needle # <<>>
  /\ LET low == LowerHaystack(haystack)
     IN /\ lowered_chars' = low.chars
        /\ lowered_to_orig_char_idx' = low.idx
  /\ lowered_needle' = StrToLowercase(needle)
  /\ ni' = ScanStart.ni
  /\ cur' = ScanStart.cur
  /\ result_orig_indices' = ScanStart.roi
  /\ last_lower_pos' = ScanStart.last
  /\ matched_lower_pos' = ScanStart.poss
  /\ pc' = "scan"
  /\ UNCHANGED <<haystack, needle, first_lower_pos, window, score, result,
                 haystack2, result2>>

ScanState ==
  [ni |-> ni, cur |-> cur, roi |-> result_orig_indices,
   last |-> last_lower_pos, poss |-> matched_lower_pos, failed |-> FALSE]

ApplyScanStep ==
  LET s == ScanStep(lowered_chars, lowered_to_orig_char_idx, lowered_needle,
                    ScanState)
  IN /\ ni' = s.ni
     /\ cur' = s.cur
     /\ result_orig_indices' = s.roi
     /\ last_lower_pos' = s.last
     /\ matched_lower_pos' = s.poss
     /\ IF s.failed
        THEN pc' = "done" /\ result' = NoMatch
        ELSE pc' = "scan" /\ result' = result
     /\ UNCHANGED <<haystack, needle, lowered_chars, lowered_to_orig_char_idx,
                    lowered_needle, first_lower_pos, window, score,
                    haystack2, result2>>

\* The while loop passes a lowered haystack character that is not nc.
WhileMiss ==
  /\ pc = "scan"
  /\ ni < Len(lowered_needle)
  /\ cur < Len(lowered_chars)
  /\ lowered_chars[cur + 1] # lowered_needle[ni + 1]
  /\ ApplyScanStep

\* The while loop finds nc: found_at = Some(cur), the original index is
\* pushed and the for loop moves to the next needle character.
WhileHit ==
  /\ pc = "scan"
  /\ ni < Len(lowered_needle)
  /\ cur < Len(lowered_chars)
  /\ lowered_chars[cur + 1] = lowered_needle[ni + 1]
  /\ ApplyScanStep

\* The cursor is at the end: found_at is None and `found_at?` returns None.
WhileExhausted ==
  /\ pc = "scan"
  /\ ni < Len(lowered_needle)
  /\ cur >= Len(lowered_chars)
  /\ ApplyScanStep

\* first_lower_pos, window and score, after the for loop.
ComputeScore ==
  /\ pc = "scan"
  /\ ni = Len(lowered_needle)
  /\ LET first == FirstLowerPos(lowered_to_orig_char_idx, result_orig_indices)
         last == IF last_lower_pos = None THEN first ELSE last_lower_pos
         w == Window(last, first, Len(lowered_needle))
     IN /\ first_lower_pos' = first
        /\ last_lower_pos' = last
        /\ window' = w
        /\ score' = ScoreOf(w, first)
  /\ pc' = "sort"
  /\ UNCHANGED <<haystack, needle, lowered_chars, lowered_to_orig_char_idx,
                 lowered_needle, ni, cur, result_orig_indices,
                 matched_lower_pos, result, haystack2, result2>>

\* sort_unstable, dedup and the return of Some((indices, score)).
ReturnSome ==
  /\ pc = "sort"
  /\ result_orig_indices' = SortDedup(result_orig_indices)
  /\ result' = SomeMatch(SortDedup(result_orig_indices), score)
  /\ pc' = "done"
  /\ UNCHANGED <<haystack, needle, lowered_chars, lowered_to_orig_char_idx,
                 lowered_needle, ni, cur, last_lower_pos, matched_lower_pos,
                 first_lower_pos, window, score, haystack2, result2>>

Next ==
  \/ EmptyNeedle
  \/ Normalize
  \/ WhileMiss
  \/ WhileHit
  \/ WhileExhausted
  \/ ComputeScore
  \/ ReturnSome

Spec == Init /\ [][Next]_vars

(* ------------------ two calls with the same needle --------------------- *)

InitPair ==
  /\ haystack \in StringsUpTo(PairChars, MaxPairHaystack)
  /\ haystack2 \in StringsUpTo(PairChars, MaxPairHaystack)
  /\ needle \in StringsUpTo(PairChars, MaxPairNeedle)
  /\ pc = "first"
  /\ lowered_chars = <<>>
  /\ lowered_to_orig_char_idx = <<>>
  /\ lowered_needle = <<>>
  /\ ni = 0
  /\ cur = 0
  /\ result_orig_indices = <<>>
  /\ last_lower_pos = None
  /\ matched_lower_pos = <<>>
  /\ first_lower_pos = 0
  /\ window = 0
  /\ score = 0
  /\ result = NoMatch
  /\ result2 = NoMatch

\* fuzzy_match(haystack, needle)
MatchFirst ==
  /\ pc = "first"
  /\ result' = FuzzyMatch(haystack, needle)
  /\ pc' = "second"
  /\ UNCHANGED <<haystack, needle, lowered_chars, lowered_to_orig_char_idx,
                 lowered_needle, ni, cur, result_orig_indices, last_lower_pos,
                 matched_lower_pos, first_lower_pos, window, score,
                 haystack2, result2>>

\* fuzzy_match(haystack2, needle)
MatchSecond ==
  /\ pc = "second"
  /\ result2' = FuzzyMatch(haystack2, needle)
  /\ pc' = "both"
  /\ UNCHANGED <<haystack, needle, lowered_chars, lowered_to_orig_char_idx,
                 lowered_needle, ni, cur, result_orig_indices, last_lower_pos,
                 matched_lower_pos, first_lower_pos, window, score,
                 haystack2, result>>

NextPair ==
  \/ MatchFirst
  \/ MatchSecond

SpecPair == InitPair /\ [][NextPair]_vars

(* ------------------------------ sanity --------------------------------- *)

TypeOK ==
  /\ pc \in {"start", "scan", "sort", "done", "first", "second", "both"}
  /\ cur \in 0..Len(lowered_chars)
  /\ ni \in 0..Len(lowered_needle)
  /\ Len(lowered_chars) = Len(lowered_to_orig_char_idx)

\* The statement-by-statement call returns what FuzzyMatch computes.
StepwiseAgrees ==
  pc = "done" => result = FuzzyMatch(haystack, needle)

(* ------------------------------ properties ----------------------------- *)

Last(s) == s[Len(s)]

\* n is a subsequence of h: its elements occur in h in order, not
\* necessarily next to one another.
RECURSIVE IsSubsequence(_, _)
IsSubsequence(n, h) ==
  IF n = <<>> THEN TRUE
  ELSE IF h = <<>> THEN FALSE
  ELSE \/ Head(n) = Head(h) /\ IsSubsequence(Tail(n), Tail(h))
       \/ IsSubsequence(n, Tail(h))

Returned == pc = "done"
Matched == pc = "done" /\ result.some /\ needle # <<>>

\* C1: for a non-empty needle the call returns Some exactly when the lowered
\* needle is a subsequence of the lowered haystack, and None exactly when it
\* is not (empty haystack and wrong order included).
C1_MatchIffSubsequence ==
  (Returned /\ needle # <<>>) =>
    (result.some <=> IsSubsequence(lowered_needle, lowered_chars))

\* A match whose needle characters are found with a gap between them.
C1_Witness ==
  /\ Matched
  /\ Len(matched_lower_pos) >= 2
  /\ Last(matched_lower_pos) - matched_lower_pos[1] + 1 > Len(lowered_needle)

\* C2: the returned indices are strictly ascending and each is a character
\* position of the original haystack, also when one haystack character
\* lowers to several characters that the match consumes.
C2_IndicesAscendingValid ==
  (Returned /\ result.some) =>
    /\ \A k \in 1..Len(result.indices) :
         result.indices[k] \in 0..(Len(haystack) - 1)
    /\ \A k \in 1..(Len(result.indices) - 1) :
         result.indices[k] < result.indices[k + 1]

\* Two lowered characters of one original character are both consumed.
C2_Witness ==
  /\ Matched
  /\ \E j, k \in 1..Len(matched_lower_pos) :
       /\ j < k
       /\ lowered_to_orig_char_idx[matched_lower_pos[j] + 1]
            = lowered_to_orig_char_idx[matched_lower_pos[k] + 1]
  /\ Len(result.indices) < Len(lowered_needle)

DistinctChars(s) == {s[k] : k \in 1..Len(s)}

\* C3 as stated: the number of returned indices is at most the number of
\* distinct characters of the needle.
C3_AtMostDistinctNeedleChars ==
  (Returned /\ result.some) =>
    Len(result.indices) <= Cardinality(DistinctChars(needle))

\* C3 as amended: the number of returned indices is at most the number of
\* characters of the lowered needle, repeated characters counted.
C3_AtMostLoweredNeedleLen ==
  (Returned /\ result.some) =>
    Len(result.indices) <= Len(lowered_needle)

\* A repeated needle character matched at two haystack positions.
C3_Witness ==
  /\ Matched
  /\ Len(result.indices) > Cardinality(DistinctChars(needle))
  /\ Len(result.indices) = Len(lowered_needle)

\* The earliest lowered position that maps to original index oi.
EarliestLowerPosOf(oi) ==
  CHOOSE p \in 0..(Len(lowered_chars) - 1) :
    /\ lowered_to_orig_char_idx[p + 1] = oi
    /\ \A q \in 0..(p - 1) : lowered_to_orig_char_idx[q + 1] # oi

\* C4: with first the earliest lowered position of the first matched
\* original character and window = (last matched lowered position - first
\* + 1) - lowered needle length, the score is window - 100 when first = 0
\* and window otherwise.
C4_ScoreIsWindowWithPrefixBonus ==
  Matched =>
    LET first ==
          EarliestLowerPosOf(lowered_to_orig_char_idx[matched_lower_pos[1] + 1])
        w == (Last(matched_lower_pos) - first + 1) - Len(lowered_needle)
    IN result.score = IF first = 0 THEN w - 100 ELSE w

\* The first needle character is matched at the second lowered character of
\* the haystack's first character: the match starts at position 0.
C4_Witness ==
  /\ Matched
  /\ matched_lower_pos[1] = 1
  /\ first_lower_pos = 0
  /\ result.score = window - 100

Trace1 == FuzzyMatchTrace(haystack, needle)
Trace2 == FuzzyMatchTrace(haystack2, needle)
Contiguous(t) == Last(t.poss) - t.poss[1] + 1 = Len(t.poss)

BothMatched ==
  /\ pc = "both"
  /\ needle # <<>>
  /\ result.some
  /\ result2.some

\* C5 as stated: same starting position, the needle contiguous in the first
\* haystack and spread out in the second: the first score is strictly lower.
C5_ContiguousScoresLower ==
  (/\ BothMatched
   /\ Trace1.first = Trace2.first
   /\ Contiguous(Trace1)
   /\ ~Contiguous(Trace2))
  => result.score < result2.score

\* C5 as amended: the same, provided the contiguous match begins at the
\* earliest lowered position of its first matched original character.
C5_ContiguousFromFirstScoresLower ==
  (/\ BothMatched
   /\ Trace1.first = Trace2.first
   /\ Contiguous(Trace1)
   /\ Trace1.poss[1] = Trace1.first
   /\ ~Contiguous(Trace2))
  => result.score < result2.score

\* A contiguous and a spread match of a two-character needle from the same
\* start, the spread one beginning inside an expanded character.
C5_Witness ==
  /\ BothMatched
  /\ Len(Trace1.poss) >= 2
  /\ Trace1.first = Trace2.first
  /\ Contiguous(Trace1)
  /\ Trace1.poss[1] = Trace1.first
  /\ ~Contiguous(Trace2)
  /\ Trace2.poss[1] # Trace2.first
  /\ result.score < result2.score

IsAscii(s) == \A k \in 1..Len(s) : s[k] \in AsciiChars
AsciiLowerChar(ch) == IF ch = "A" THEN "a" ELSE ch
AsciiLower(s) == [k \in 1..Len(s) |-> AsciiLowerChar(s[k])]

\* C6: for ASCII inputs the call returns what the call on the lowercased
\* inputs returns: both fail, or both succeed with the same indices and
\* score.
C6_AsciiCaseInsensitive ==
  (Returned /\ IsAscii(haystack) /\ IsAscii(needle)) =>
    result = FuzzyMatch(AsciiLower(haystack), AsciiLower(needle))

\* An upper-case haystack letter matched by a lower-case needle letter.
C6_Witness ==
  /\ Matched
  /\ IsAscii(haystack)
  /\ IsAscii(needle)
  /\ \E k \in 1..Len(result.indices) :
       /\ haystack[result.indices[k] + 1] = "A"
       /\ \E j \in 1..Len(needle) : needle[j] = "a"

\* C7: with an empty needle the call returns Some with no indices and the
\* score i32::MAX, for every haystack, and the haystack is not scanned.
C7_EmptyNeedle ==
  (Returned /\ needle = <<>>) =>
    /\ result = [some |-> TRUE, indices |-> <<>>, score |-> 2147483647]
    /\ lowered_chars = <<>>
    /\ cur = 0

C7_Witness ==
  /\ Returned
  /\ needle = <<>>
  /\ haystack # <<>>
  /\ result.some

StrictlyIncreasing(s) == \A k \in 1..(Len(s) - 1) : s[k] < s[k + 1]

GreedyStep ==
  /\ cur' >= cur
  /\ StrictlyIncreasing(matched_lower_pos')
  /\ Len(matched_lower_pos') = Len(matched_lower_pos) + 1 =>
       LET pos == Last(matched_lower_pos')
           prev == IF matched_lower_pos = <<>> THEN -1
                   ELSE Last(matched_lower_pos)
           nc == lowered_needle[Len(matched_lower_pos')]
       IN /\ pos > prev
          /\ lowered_chars[pos + 1] = nc
          /\ \A p \in (prev + 1)..(pos - 1) : lowered_chars[p + 1] # nc

\* C8: the cursor never moves backward, and each lowered needle character is
\* matched at the first position after the previous match that holds an
\* equal character, so the matched positions are strictly increasing.
C8_GreedyForward == [][GreedyStep]_vars

\* The first needle character occurs again later in the haystack, and the
\* match skipped over a character to reach the second needle character.
C8_Witness ==
  /\ Matched
  /\ Len(matched_lower_pos) >= 2
  /\ matched_lower_pos[2] > matched_lower_pos[1] + 1
  /\ \E p \in (matched_lower_pos[1] + 1)..(Len(lowered_chars) - 1) :
       lowered_chars[p + 1] = lowered_needle[1]

\* C9: the unclamped window is never negative, the score equals it but for
\* the prefix bonus, the score is at least -100, and it is -100 only when
\* the span is the lowered needle length and starts at lowered position 0.
C9_WindowNonNegative ==
  Matched =>
    LET span == last_lower_pos - first_lower_pos + 1
        unclamped == span - Len(lowered_needle)
    IN /\ window = unclamped
       /\ unclamped >= 0
       /\ result.score = IF first_lower_pos = 0 THEN unclamped - 100
                         ELSE unclamped
       /\ result.score >= -100
       /\ result.score = -100 =>
            (span = Len(lowered_needle) /\ first_lower_pos = 0)

\* A match consuming both lowered characters of the first haystack
\* character: span 2, needle length 2, score -100.
C9_Witness ==
  /\ Matched
  /\ result.score = -100
  /\ Len(lowered_needle) = 2
  /\ result.indices = <<0>>

PerCharLower(s) == LowerHaystack(s).chars

\* C10: the lowered needle is the concatenation of the per-character
\* lowercase expansions of the needle's characters, and a haystack matches
\* itself.
C10_NeedleLoweredLikeHaystack ==
  (Returned /\ needle # <<>>) =>
    /\ lowered_needle = PerCharLower(needle)
    /\ haystack = needle => result.some

====
